---- MODULE Spec2Model ----
(***************************************************************************)
(* State machine of the TransferList all-in-one component                  *)
(* (src/transferlist_aio.py): the two-list value held by the hidden        *)
(* JsonInput, the children and the value of each side's CheckboxGroup, the *)
(* value of each side's search TextInput, and the two server callbacks     *)
(* filter_checklist and transfer_values.                                   *)
(*                                                                         *)
(* Python values are represented as follows.                               *)
(*   str            a sequence of one-character strings                    *)
(*   None / x       None == <<>>, Some(x) == <<x>>  (optional values)      *)
(*   list[str] of a CheckboxGroup value: a set of values (the callbacks    *)
(*                  only test membership in it and its emptiness)          *)
(*   item           [value |-> "react", label |-> <<"R","e","a","c","t">>] *)
(*                                                                         *)
(* Each stimulus is handled as one step.  A transfer that moves something  *)
(* writes both search boxes, which are Inputs of filter_checklist: the two *)
(* runs of that callback are the steps SearchWritten, taken in either      *)
(* order before the next user stimulus (`pending` holds the sides whose    *)
(* run is queued).  `last` is a history variable naming the step taken     *)
(* last.                                                                   *)
(***************************************************************************)
EXTENDS Integers, Sequences, FiniteSets, TLC

VARIABLES value, children, selection, search, config, pending, last

vars == <<value, children, selection, search, config, pending, last>>

(* ------------------------------ bounds --------------------------------- *)

\* Number of items of ItemPool the initial value is drawn from.
NItems == 3

\* Largest `limit` the widget is constructed with.
MaxLimit == 1

\* Longest list the filter is applied to in SpecFilter.
MaxFilterLen == 3

(* --------------------------- Python values ----------------------------- *)

None == <<>>

Some(x) == <<x>>

\* Python truthiness of an optional str or optional list: None and the empty
\* str/list are falsy.
Truthy(o) == o # None /\ o[1] # <<>>

Sides == {"left", "right"}

OtherSide(side) == IF side = "left" THEN "right" ELSE "left"

\* str.lower(), character by character.
UpperToLower ==
    [c \in {"A", "B", "C", "E", "G", "N", "R", "T", "V", "Q"} |->
        CASE c = "A" -> "a" [] c = "B" -> "b" [] c = "C" -> "c"
          [] c = "E" -> "e" [] c = "G" -> "g" [] c = "N" -> "n"
          [] c = "R" -> "r" [] c = "T" -> "t" [] c = "V" -> "v"
          [] c = "Q" -> "q"]

lower(s) ==
    [i \in 1..Len(s) |-> IF s[i] \in DOMAIN UpperToLower THEN UpperToLower[s[i]] ELSE s[i]]

\* Python `a in b` on two str: a occurs in b as a contiguous substring.
str_in(a, b) ==
    \E i \in 0..(Len(b) - Len(a)) : \A k \in 1..Len(a) : b[i + k] = a[k]

\* [x for x in seq if Keep(x)]
RECURSIVE SelectList(_, _)
SelectList(seq, keep) ==
    IF seq = <<>> THEN <<>>
    ELSE IF keep[Head(seq)] THEN <<Head(seq)>> \o SelectList(Tail(seq), keep)
    ELSE SelectList(Tail(seq), keep)

\* seq[:n]
SliceTo(seq, n) == SubSeq(seq, 1, IF n < Len(seq) THEN n ELSE Len(seq))

(* ----------------------------- json ------------------------------------ *)

\* json.dumps of an optional str: null, or the text between double quotes.
json_dumps(o) ==
    IF o = None THEN <<"n", "u", "l", "l">> ELSE <<"\"">> \o o[1] \o <<"\"">>

\* json.loads of a document json_dumps wrote.
json_loads(doc) ==
    IF doc = <<"n", "u", "l", "l">> THEN None ELSE Some(SubSeq(doc, 2, Len(doc) - 1))

\* json.dumps / json.loads of a bool.
json_dumps_bool(b) == IF b THEN "true" ELSE "false"

json_loads_bool(doc) == doc = "true"

(* ------------------------------ inputs --------------------------------- *)

\* Items the initial value is drawn from (the first of app.py's initial_values).
ItemPool ==
    << [value |-> "react", label |-> <<"R", "e", "a", "c", "t">>],
       [value |-> "ng",    label |-> <<"A", "n", "g", "u", "l", "a", "r">>],
       [value |-> "next",  label |-> <<"N", "e", "x", "t", ".", "j", "s">>],
       [value |-> "vue",   label |-> <<"V", "u", "e">>],
       [value |-> "jq",    label |-> <<"j", "Q", "u", "e", "r", "y">>] >>

Items == {ItemPool[i] : i \in 1..NItems}

Values == {it.value : it \in Items}

\* Texts a user types in a search box: none, and one that matches "Angular" and
\* "Next.js" only once both the text and the label are lower-cased.
Queries == { <<>>, <<"N">> }

PlaceholderText == <<"N", "o", " ", "i", "t", "e", "m", "s">>

NothingFoundText == <<"N", "o", "n", "e">>

(* ------------------------- component tree ------------------------------ *)

\* children of a CheckboxGroup: a list of Checkbox, one dmc.Text, or None.
Checkboxes(items) == [kind |-> "checkboxes", items |-> items, text |-> None]

Text(t) == [kind |-> "text", items |-> <<>>, text |-> t]

NoChildren == [kind |-> "none", items |-> <<>>, text |-> None]

\* The values of the checkboxes a side renders.
RenderedValues(ch) == {ch.items[i].value : i \in 1..Len(ch.items)}

\* TransferList.checklist: the CheckboxGroup of one side at construction.
checklist(val, limit) ==
    IF limit # None /\ limit[1] # 0
    THEN Checkboxes(SliceTo(val, limit[1]))
    ELSE Checkboxes(val)

(* ------------------------------ history -------------------------------- *)

\* `last` records the stimulus handled last: the callback or user action, its
\* side and, for a click on a transfer button, the values the callback computed
\* to move and the two search texts it was given.
NoSearch == [s \in Sides |-> None]

NoClick(op, side) ==
    [op |-> op, side |-> side, transferred |-> {}, searched |-> NoSearch]

(* --------------------------- construction ------------------------------ *)

\* The initial value: every item of Items in exactly one list, in pool order.
InitialValues ==
    { [s \in Sides |->
          SelectList(SubSeq(ItemPool, 1, NItems),
                     [it \in Items |-> (it \in L) = (s = "left")])]
      : L \in SUBSET Items }

Limits == {None} \cup {Some(n) : n \in 1..MaxLimit}

\* TransferList(value=val, ...): the state of the widget once constructed from a
\* value of `vals`.  The value is stored as given: nothing is validated.
Construct(vals) ==
    /\ value \in vals
    /\ \E limit \in Limits,
          placeholder \in {None, Some(PlaceholderText)},
          nothingFound \in {None, Some(NothingFoundText)},
          transferAllMatchingFilters \in BOOLEAN :
          config = [limit |-> limit,
                    placeholder |-> placeholder,
                    nothingFound |-> nothingFound,
                    transferAllMatchingFilters |-> transferAllMatchingFilters,
                    data_placeholder |-> json_dumps(placeholder),
                    data_nothingfound |-> json_dumps(nothingFound),
                    data_transferallmatchingfilters |->
                        json_dumps_bool(transferAllMatchingFilters)]
    /\ children = [s \in Sides |-> checklist(value[s], config.limit)]
    /\ selection = [s \in Sides |-> None]
    /\ search = [s \in Sides |-> None]
    /\ pending = {}
    /\ last = NoClick("init", "left")

Init == Construct(InitialValues)

\* Any two lists of distinct items of Items, in pool order, of NItems items
\* together at most: a value may be in both lists.
AnyValues ==
    { [s \in Sides |->
          SelectList(SubSeq(ItemPool, 1, NItems),
                     [it \in Items |-> it \in (IF s = "left" THEN p[1] ELSE p[2])])]
      : p \in {q \in (SUBSET Items) \X (SUBSET Items) :
                  Cardinality(q[1]) + Cardinality(q[2]) <= NItems} }

InitAnyValue == Construct(AnyValues)

(* -------------------------- filter_checklist --------------------------- *)

\* `selection or []`
SelectionOrEmpty(sel) == IF sel = None THEN {} ELSE sel[1]

\* Mutant of matches_search: the text and the label are compared as they are.
matches_search_case_sensitive(srch, item) ==
    ~Truthy(srch) \/ str_in(srch[1], item.label)

\* not search or search.lower() in v["label"].lower()
matches_search(srch, item) ==
    ~Truthy(srch) \/ str_in(lower(srch[1]), lower(item.label))

\* Mutant of filter_list: the items that do not match are removed from the list
\* while it is iterated, so the item after a removed one is skipped.
RECURSIVE remove_while_iterating(_, _, _)
remove_while_iterating(list, i, srch) ==
    IF i > Len(list) THEN list
    ELSE IF matches_search(srch, list[i])
    THEN remove_while_iterating(list, i + 1, srch)
    ELSE remove_while_iterating(SubSeq(list, 1, i - 1) \o SubSeq(list, i + 1, Len(list)),
                                i + 1, srch)

filter_list_in_place(list, srch) == remove_while_iterating(list, 1, srch)

\* [v for v in value if not search or search.lower() in v["label"].lower()]
filter_list(list, srch) ==
    SelectList(list, [v \in Items |-> matches_search(srch, v)])

\* value = values[0] if ctx.triggered_id["side"] == "left" else values[1]
\* filtered = [v for v in value if ...]
filtered(side, srch) == filter_list(value[side], srch)

\* Mutant of updated_selection: the selection is returned as it was given.
updated_selection_unfiltered(side, srch) == Some(SelectionOrEmpty(selection[side]))

\* updated_selection = [s for s in (selection or []) if s in filtered_values]
updated_selection(side, srch) ==
    LET filtered_values == {filtered(side, srch)[i].value : i \in 1..Len(filtered(side, srch))}
    IN  Some({s \in SelectionOrEmpty(selection[side]) : s \in filtered_values})

\* Mutant of filter_children: the texts are tested once loaded, so that a text
\* that is not configured gives no element.
filter_children_tests_loaded(side, srch) ==
    IF filtered(side, srch) # <<>>
    THEN Checkboxes(filtered(side, srch))
    ELSE IF Truthy(srch) /\ Truthy(json_loads(config.data_nothingfound))
    THEN Text(json_loads(config.data_nothingfound))
    ELSE IF ~Truthy(srch) /\ Truthy(json_loads(config.data_placeholder))
    THEN Text(json_loads(config.data_placeholder))
    ELSE NoChildren

\* children of filter_checklist: the checkboxes, else the nothing-found text, else
\* the placeholder text, else None.  nothing_found and placeholder are the JSON
\* documents of the main input's data- attributes.
filter_children(side, srch) ==
    IF filtered(side, srch) # <<>>
    THEN Checkboxes(filtered(side, srch))
    ELSE IF Truthy(srch) /\ config.data_nothingfound # <<>>
    THEN Text(json_loads(config.data_nothingfound))
    ELSE IF ~Truthy(srch) /\ config.data_placeholder # <<>>
    THEN Text(json_loads(config.data_placeholder))
    ELSE NoChildren

\* Mutant of filter_checklist: the selection of the other side is emptied too.
filter_checklist_both_selections(side, srch) ==
    /\ children' = [children EXCEPT ![side] = filter_children(side, srch)]
    /\ selection' = [s \in Sides |->
                         IF s = side THEN updated_selection(side, srch) ELSE Some({})]
    /\ UNCHANGED <<value, config>>

\* The callback filter_checklist run for `side` with the search text `srch`.
filter_checklist(side, srch) ==
    /\ children' = [children EXCEPT ![side] = filter_children(side, srch)]
    /\ selection' = [selection EXCEPT ![side] = updated_selection(side, srch)]
    /\ UNCHANGED <<value, config>>

(* --------------------------- transfer_values --------------------------- *)

\* Mutant of transferred_values: transfer-all never looks at the search text.
transferred_values_ignores_search(part, side) ==
    IF part = "transfer"
    THEN SelectionOrEmpty(selection[side])
    ELSE {value[side][i].value : i \in 1..Len(value[side])}

\* Mutant of transferred_values: transfer-all always keeps to the search text,
\* whatever transfer_matching says.
transferred_values_always_matching(part, side) ==
    IF part = "transfer"
    THEN SelectionOrEmpty(selection[side])
    ELSE {value[side][i].value :
             i \in {j \in 1..Len(value[side]) : matches_search(search[side], value[side][j])}}

\* The values to move: the side's selection for the transfer button, the side's
\* items (those matching the search when transfer_matching is set) for the
\* transfer-all button.
transferred_values(part, side) ==
    IF part = "transfer"
    THEN SelectionOrEmpty(selection[side])
    ELSE IF json_loads_bool(config.data_transferallmatchingfilters)
    THEN {value[side][i].value :
             i \in {j \in 1..Len(value[side]) : matches_search(search[side], value[side][j])}}
    ELSE {value[side][i].value : i \in 1..Len(value[side])}

\* Mutant of new_value: the transferred items are not removed from the source.
new_value_keeps_source(side, transferred) ==
    [s \in Sides |->
        IF s = side THEN value[side]
        ELSE value[OtherSide(side)]
                 \o SelectList(value[side], [v \in Items |-> v.value \in transferred])]

\* Mutant of new_value: the transferred items are put in front of the destination.
new_value_prepends(side, transferred) ==
    [s \in Sides |->
        IF s = side
        THEN SelectList(value[side], [v \in Items |-> v.value \notin transferred])
        ELSE SelectList(value[side], [v \in Items |-> v.value \in transferred])
                 \o value[OtherSide(side)]]

\* new_value: the source list without the transferred items, the destination list
\* followed by the transferred items of the source.
new_value(side, transferred) ==
    LET other == OtherSide(side)
        moved == [v \in Items |-> v.value \in transferred]
        kept  == [v \in Items |-> v.value \notin transferred]
    IN  [s \in Sides |->
            IF s = side THEN SelectList(value[side], kept)
            ELSE value[other] \o SelectList(value[side], moved)]

\* new_children: the checkboxes of each new list, or the placeholder text.
new_children(nv) ==
    [s \in Sides |->
        IF nv[s] # <<>> THEN Checkboxes(nv[s])
        ELSE Text(json_loads(config.data_placeholder))]

\* Mutant of new_selection: no_update, the selections stay as they are.
new_selection_no_update == selection

\* [[]] * 2
new_selection == [s \in Sides |-> Some({})]

\* Mutant of new_search: no_update, the search texts stay as they are.
new_search_no_update == search

\* [""] * 2
new_search == [s \in Sides |-> Some(<<>>)]

\* Mutant of no_update_all: the callback never returns early.
no_update_never(transferred) == FALSE

\* if not transferred: every output is no_update.
no_update_all(transferred) == transferred = {}

\* The callback transfer_values for a click on button `part` of `side`.  When
\* nothing is to be transferred every output is no_update; otherwise the four
\* outputs are written and the two search inputs, being Inputs of
\* filter_checklist, queue that callback for both sides.
transfer_values(part, side) ==
    LET transferred == transferred_values(part, side) IN
    /\ last' = [op |-> part, side |-> side, transferred |-> transferred,
                searched |-> search]
    /\ IF no_update_all(transferred)
       THEN UNCHANGED <<value, children, selection, search, config, pending>>
       ELSE /\ value' = new_value(side, transferred)
            /\ children' = new_children(new_value(side, transferred))
            /\ selection' = new_selection
            /\ search' = new_search
            /\ pending' = Sides
            /\ UNCHANGED config

(* ------------------------- clientside callbacks ------------------------ *)

\* const disabled = !filtered || !filtered.length, `filtered` being the children
\* of the side's checklist: null, one dmc.Text (an object, without length) and an
\* empty list all disable.  The callback runs on every change of the children, so
\* the style of the transfer-all button is a function of them.
transfer_all_disabled(ch) == ch.kind # "checkboxes" \/ Len(ch.items) = 0

\* color: gray and cursor: default when disabled.
transfer_all_style(ch) ==
    IF transfer_all_disabled(ch)
    THEN [color |-> "gray", cursor |-> "default"]
    ELSE [color |-> "null", cursor |-> "pointer"]

(* ------------------------------ stimuli -------------------------------- *)

\* The user ticks or unticks a rendered checkbox of `side`.
Check(side, v) ==
    /\ pending = {}
    /\ v \in RenderedValues(children[side])
    /\ selection' = [selection EXCEPT ![side] =
           Some(IF v \in SelectionOrEmpty(selection[side])
                THEN SelectionOrEmpty(selection[side]) \ {v}
                ELSE SelectionOrEmpty(selection[side]) \cup {v})]
    /\ last' = NoClick("check", side)
    /\ UNCHANGED <<value, children, search, config, pending>>

\* The text a search box shows: empty while its value is None.
SearchText(srch) == IF srch = None THEN <<>> ELSE srch[1]

\* The user changes the text of the search box of `side`.
SearchChanged(side, text) ==
    /\ pending = {}
    /\ text # SearchText(search[side])
    /\ search' = [search EXCEPT ![side] = Some(text)]
    /\ filter_checklist(side, Some(text))
    /\ last' = NoClick("search", side)
    /\ UNCHANGED pending

\* filter_checklist queued by a transfer's write to the search box of `side`.
SearchWritten(side) ==
    /\ side \in pending
    /\ filter_checklist(side, search[side])
    /\ pending' = pending \ {side}
    /\ last' = NoClick("search_written", side)
    /\ UNCHANGED search

\* A click on the transfer button of `side`.
Transfer(side) ==
    /\ pending = {}
    /\ transfer_values("transfer", side)

\* A click on the transfer-all button of `side`.
TransferAll(side) ==
    /\ pending = {}
    /\ transfer_values("transfer_all", side)

Next ==
    \/ \E side \in Sides, v \in Values : Check(side, v)
    \/ \E side \in Sides, text \in Queries : SearchChanged(side, text)
    \/ \E side \in Sides : SearchWritten(side)
    \/ \E side \in Sides : Transfer(side)
    \/ \E side \in Sides : TransferAll(side)

Spec == Init /\ [][Next]_vars

(* ------------------------ the filter on its own ------------------------ *)

\* Lists the filter is applied to: any items of Items, repeated or not.
RECURSIVE ListsUpTo(_)
ListsUpTo(n) ==
    IF n = 0 THEN {<<>>}
    ELSE ListsUpTo(n - 1)
             \cup {Append(l, it) : l \in {m \in ListsUpTo(n - 1) : Len(m) = n - 1},
                                   it \in Items}

\* Texts the filter is applied with: none, one character in another case than
\* the labels', two adjacent characters of a label, two characters of a label
\* that are not adjacent.
FilterQueries == { <<>>, <<"N">>, <<"N", "G">>, <<"T">>, <<"r", "c">> }

\* The left list is the list to filter, the right list is empty.
InitFilter ==
    Construct({ [s \in Sides |-> IF s = "left" THEN l ELSE <<>>]
                : l \in ListsUpTo(MaxFilterLen) })

\* The user types a text in the left search box.
NextFilter == \E text \in FilterQueries : SearchChanged("left", text)

SpecFilter == InitFilter /\ [][NextFilter]_vars

\* The widget constructed from any value, a value in both lists included.
SpecAnyValue == InitAnyValue /\ [][Next]_vars

(* ======================= vocabulary of the claims ====================== *)

\* The two lists of a value, left then right.
BothLists(val) == val["left"] \o val["right"]

ValuesOf(list) == {list[i].value : i \in 1..Len(list)}

\* The number of items of `list` whose value is v.
Occurrences(list, v) == Cardinality({i \in 1..Len(list) : list[i].value = v})

\* The items of `list` whose value is (is not) in `vals`, in list order.
Only(list, vals) == LET in(x) == x.value \in vals IN SelectSeq(list, in)

Without(list, vals) == LET out(x) == x.value \notin vals IN SelectSeq(list, out)

\* The label matches the search text: case-insensitive substring, every label
\* matching the empty (or unset) text.
LabelMatches(srch, item) ==
    \/ SearchText(srch) = <<>>
    \/ str_in(lower(SearchText(srch)), lower(item.label))

\* The values of `list` whose label matches the search text.
MatchingValues(list, srch) ==
    {list[i].value : i \in {j \in 1..Len(list) : LabelMatches(srch, list[j])}}

Selected(side) == IF selection[side] = None THEN {} ELSE selection[side][1]

EmptyText == [s \in Sides |-> Some(<<>>)]

\* The step is a click on the transfer (transfer-all) button of `side`.
TransferClick(side) == last'.op = "transfer" /\ last'.side = side

TransferAllClick(side) == last'.op = "transfer_all" /\ last'.side = side

\* The state is the one a click that moved something has just produced.
AfterTransfer(op) == last.op = op /\ last.transferred # {}

(* ------------------------------- C1 ------------------------------------ *)

\* C1: from an initial value with pairwise distinct values, whatever the stimuli,
\* every initial item is in exactly one place of the two lists together: the
\* multiset of values over Left and Right is the initial one, and no value is in
\* both lists or twice in one.
C1_PartitionInvariant ==
    /\ \A v \in Values : Occurrences(BothLists(value), v) = 1
    /\ \A i \in 1..Len(BothLists(value)) : BothLists(value)[i] \in Items
    /\ Len(BothLists(value)) = Cardinality(Values)

C1_Witness ==
    /\ AfterTransfer("transfer")
    /\ value[last.side] # <<>>
    /\ Len(value[OtherSide(last.side)]) >= 2

(* ------------------------------- C2 ------------------------------------ *)

\* C2: on both sides every selected value is the value of a checkbox the side
\* currently renders.
C2_SelectionSoundness ==
    \A s \in Sides : Selected(s) \subseteq ValuesOf(children[s].items)

C2_Witness ==
    /\ last.op = "search"
    /\ Truthy(search[last.side])
    /\ Selected(last.side) # {}
    /\ Len(children[last.side].items) < Len(value[last.side])

(* ------------------------------- C3 ------------------------------------ *)

\* C3: a transfer click on side s with a non-empty selection leaves in the source
\* list the items not selected, in order, and appends to the destination list the
\* selected items in their source order.
C3_TransferOneResult ==
    [][\A s \in Sides :
          (TransferClick(s) /\ Selected(s) # {}) =>
              /\ value'[s] = Without(value[s], Selected(s))
              /\ value'[OtherSide(s)] =
                     value[OtherSide(s)] \o Only(value[s], Selected(s))]_vars

C3_Witness ==
    /\ AfterTransfer("transfer")
    /\ Cardinality(last.transferred) >= 2
    /\ Len(value[OtherSide(last.side)]) > Cardinality(last.transferred)

(* ------------------------------- C4 ------------------------------------ *)

\* C4 as stated: a transfer click that moves something leaves both search texts
\* as they were.
C4_TransferOneKeepsSearch ==
    [][\A s \in Sides :
          (TransferClick(s) /\ Selected(s) # {}) =>
              \A t \in Sides : SearchText(search'[t]) = SearchText(search[t])]_vars

\* C4 amended: a transfer click that moves something sets both search texts to
\* the empty string.
C4_TransferOneClearsSearch ==
    [][\A s \in Sides :
          (TransferClick(s) /\ Selected(s) # {}) => search' = EmptyText]_vars

C4_Witness ==
    /\ AfterTransfer("transfer")
    /\ Truthy(last.searched[last.side])
    /\ search = EmptyText

(* ------------------------------- C5 ------------------------------------ *)

\* C5: with transferAllMatchingFilters set, a transfer-all click on side s moves
\* the items of the whole list of s whose label matches the search text of s,
\* rendered or not, and leaves the others in place.
C5_TransferAllMatching ==
    [][\A s \in Sides :
          (TransferAllClick(s) /\ config.transferAllMatchingFilters) =>
              /\ value'[s] = Without(value[s], MatchingValues(value[s], search[s]))
              /\ value'[OtherSide(s)] =
                     value[OtherSide(s)]
                         \o Only(value[s], MatchingValues(value[s], search[s]))]_vars

C5_Witness ==
    /\ AfterTransfer("transfer_all")
    /\ config.transferAllMatchingFilters
    /\ Truthy(last.searched[last.side])
    /\ value[last.side] # <<>>
    /\ Cardinality(last.transferred) >= 2

(* ------------------------------- C6 ------------------------------------ *)

\* C6: with transferAllMatchingFilters unset, a transfer-all click on a non-empty
\* side s empties the list of s whatever its search text, the other list then
\* holding all items, and side s shows the configured placeholder text.
C6_TransferAllEverything ==
    [][\A s \in Sides :
          (TransferAllClick(s) /\ ~config.transferAllMatchingFilters
              /\ value[s] # <<>>) =>
              /\ value'[s] = <<>>
              /\ value'[OtherSide(s)] = value[OtherSide(s)] \o value[s]
              /\ config.placeholder # None =>
                     /\ children'[s].kind = "text"
                     /\ children'[s].text = config.placeholder]_vars

C6_Witness ==
    /\ AfterTransfer("transfer_all")
    /\ ~config.transferAllMatchingFilters
    /\ Truthy(last.searched[last.side])
    /\ \E i \in 1..Len(value[OtherSide(last.side)]) :
           /\ value[OtherSide(last.side)][i].value \in last.transferred
           /\ ~LabelMatches(last.searched[last.side], value[OtherSide(last.side)][i])
    /\ value[last.side] = <<>>
    /\ children[last.side].text = Some(PlaceholderText)

(* ------------------------------- C7 ------------------------------------ *)

\* C7: a click on a transfer or transfer-all button that moves something leaves
\* the selection of both sides empty.
C7_SelectionsCleared ==
    [][(last'.op \in {"transfer", "transfer_all"} /\ value' # value) =>
          \A s \in Sides : selection'[s] = Some({})]_vars

C7_Witness ==
    /\ AfterTransfer("transfer")
    /\ value[last.side] # <<>>
    /\ \A s \in Sides : selection[s] = Some({})

(* ------------------------------- C8 ------------------------------------ *)

\* C8: a transfer-all click that moves something leaves the search text of both
\* sides empty, whatever the texts were.
C8_TransferAllClearsSearch ==
    [][(last'.op = "transfer_all" /\ value' # value) =>
          \A s \in Sides : search'[s] = Some(<<>>)]_vars

C8_Witness ==
    /\ AfterTransfer("transfer_all")
    /\ \A s \in Sides : Truthy(last.searched[s])
    /\ \A s \in Sides : search[s] = Some(<<>>)

(* ------------------------------- C9 ------------------------------------ *)

\* Nothing is to be moved by a transfer-all click on side s.
NothingToMoveAll(s) ==
    \/ value[s] = <<>>
    \/ /\ config.transferAllMatchingFilters
       /\ MatchingValues(value[s], search[s]) = {}

\* C9: a transfer click with an empty or unset selection, and a transfer-all
\* click with nothing to move, change no list, no rendered children, no selection
\* and no search text.
C9_EmptyTransferNoOp ==
    [][\A s \in Sides :
          (\/ TransferClick(s) /\ Selected(s) = {}
           \/ TransferAllClick(s) /\ NothingToMoveAll(s)) =>
              UNCHANGED <<value, children, selection, search, pending>>]_vars

C9_Witness ==
    /\ last.op = "transfer_all"
    /\ last.transferred = {}
    /\ value[last.side] # <<>>
    /\ Truthy(search[last.side])
    /\ selection[OtherSide(last.side)] # None
    /\ Selected(OtherSide(last.side)) # {}

(* ------------------------------- C10 ----------------------------------- *)

\* C10: with a limit n configured, each side renders at most n checkboxes, the
\* first n of the items of its list that match its search text.
C10_LimitCap ==
    config.limit # None =>
        \A s \in Sides :
            /\ Len(children[s].items) <= config.limit[1]
            /\ children[s].items =
                   SliceTo(Only(value[s], MatchingValues(value[s], search[s])),
                           config.limit[1])

(* ------------------------------- C11 ----------------------------------- *)

\* The sides whose children the step taken last has written.
RenderedByLast ==
    IF last.op \in {"search", "search_written"} THEN {last.side}
    ELSE IF last.op \in {"transfer", "transfer_all"} /\ last.transferred # {} THEN Sides
    ELSE {}

\* What a side shows for a text that may not be configured: the text, or no
\* element at all.
TextOrNothing(t) == IF t # None THEN Text(t) ELSE NoChildren

\* C11: a side that a search change or a transfer has left without visible items
\* shows the nothing-found text when its search text is not empty, the
\* placeholder text when its search text and its list are empty, and no element
\* at all when that text is not configured.
C11_EmptyStateRendering ==
    \A s \in RenderedByLast :
        children[s].items = <<>> =>
            IF SearchText(search[s]) # <<>>
            THEN children[s] = TextOrNothing(config.nothingFound)
            ELSE value[s] = <<>> => children[s] = TextOrNothing(config.placeholder)

(* ------------------------------- C12 ----------------------------------- *)

\* C12: a value with an item value in both lists yields no widget: no state of a
\* constructed widget has a value in both lists.
C12_NoValueInBothLists ==
    ValuesOf(value["left"]) \cap ValuesOf(value["right"]) = {}

(* ------------------------------- C13 ----------------------------------- *)

\* The items of `list` whose label matches the search text, in list order.
Filter(list, srch) == LET keep(x) == LabelMatches(srch, x) IN SelectSeq(list, keep)

\* C13: without a limit, each side displays the items of its list whose label
\* matches its search text, in list order, in every state.
C13_DisplayedTrackListAndSearch ==
    config.limit = None =>
        \A s \in Sides : children[s].items = Filter(value[s], search[s])

C13_Witness ==
    /\ config.limit = None
    /\ AfterTransfer("transfer")
    /\ Truthy(last.searched[last.side])
    /\ \A s \in Sides : value[s] # <<>> /\ children[s].items = value[s]

(* ------------------------------- C14 ----------------------------------- *)

\* The step is a run of the search-changed handler for `side`.
SearchStep(side) == last'.op \in {"search", "search_written"} /\ last'.side = side

\* C14: a search-text change on side s makes the displayed items of s the items
\* of its list matching the new text and restricts the selection of s to their
\* values; both lists and the other side's children, selection and search text
\* stay as they were.
C14_SearchChangedFrame ==
    [][\A s \in Sides :
          SearchStep(s) =>
              /\ children'[s].items = Filter(value[s], search'[s])
              /\ selection'[s] =
                     Some(Selected(s) \cap ValuesOf(Filter(value[s], search'[s])))
              /\ value' = value
              /\ children'[OtherSide(s)] = children[OtherSide(s)]
              /\ selection'[OtherSide(s)] = selection[OtherSide(s)]
              /\ search'[OtherSide(s)] = search[OtherSide(s)]]_vars

C14_Witness ==
    /\ last.op = "search"
    /\ Truthy(search[last.side])
    /\ Selected(last.side) # {}
    /\ Len(children[last.side].items) < Len(value[last.side])
    /\ Selected(OtherSide(last.side)) # {}
    /\ Truthy(search[OtherSide(last.side)])

(* ------------------------------- C15 ----------------------------------- *)

\* a occurs in b as a run of adjacent elements.
Contains(a, b) ==
    \E i \in 1..(Len(b) + 1) :
        i + Len(a) - 1 <= Len(b) /\ SubSeq(b, i, i + Len(a) - 1) = a

\* The lower-cased label contains the lower-cased query.
LabelContains(q, item) == Contains(lower(q), lower(item.label))

\* C15: the filter applied to the left list L with the query q gives the items of
\* L whose lower-cased label contains the lower-cased q, in the order of L; L
\* itself for the empty query; never more items than L has.
C15_FilterDefinition ==
    last.op = "search" =>
        LET L == value["left"]
            q == SearchText(search["left"])
            F == children["left"].items
            keep(x) == LabelContains(q, x)
        IN  /\ F = SelectSeq(L, keep)
            /\ q = <<>> => F = L
            /\ Len(F) <= Len(L)

C15_Witness ==
    /\ last.op = "search"
    /\ search["left"] = Some(<<"N", "G">>)
    /\ Len(value["left"]) = MaxFilterLen
    /\ Len(children["left"].items) = 2
    /\ \E i \in 1..Len(value["left"]) : value["left"][i].value = "next"

(* ------------------------------- C16 ----------------------------------- *)

\* C16: the filter applied with the query q to what it gave for q gives the same
\* items again.
C16_FilterIdempotence ==
    last.op = "search" =>
        filter_list(children["left"].items, search["left"]) = children["left"].items

C16_Witness ==
    /\ last.op = "search"
    /\ search["left"] = Some(<<"T">>)
    /\ children["left"].items # <<>>
    /\ Len(children["left"].items) < Len(value["left"])

(* ------------------------------- C17 ----------------------------------- *)

\* C17: the transfer-all button of a side is styled as disabled (gray, default
\* cursor) exactly when a click on it would move no item.
C17_TransferAllStyleMatchesEffect ==
    \A s \in Sides :
        (transfer_all_style(children[s]) = [color |-> "gray", cursor |-> "default"])
            <=> NothingToMoveAll(s)

(* ------------------------------- C18 ----------------------------------- *)

\* C18: the runs of the search-changed handler that a transfer's write to the two
\* search boxes queues, in either order, leave both lists, both sides' children
\* and both selections as the transfer produced them.
C18_CascadeStable ==
    [][last'.op = "search_written" =>
          UNCHANGED <<value, children, selection, search>>]_vars

C18_Witness ==
    /\ last.op = "search_written"
    /\ pending = {}
    /\ \E s \in Sides :
           /\ value[s] = <<>>
           /\ children[s].kind = "text"
           /\ children[OtherSide(s)].kind = "checkboxes"
           /\ Len(children[OtherSide(s)].items) = Cardinality(Values)

====
